---- MODULE Spec2Model ----
(***************************************************************************)
(* Model of the per-user session orchestration of the ASB orchestrator:    *)
(* the Redis-backed state machine (orchestrator/fsm.py), the planner and   *)
(* content adapters (orchestrator/nodes.py) and the HTTP facade            *)
(* (orchestrator/main.py).                                                 *)
(*                                                                         *)
(* One user is modelled: every key of the store is namespaced by the user  *)
(* id, so users share no state.  Requests of that user are served by       *)
(* NumProcs concurrent units of work.  A unit takes one step per store     *)
(* command or upstream call: nothing serialises two requests of one user   *)
(* (fsm.py:133-135 calls the guarded transition "best-effort" and asks for *)
(* a Lua script or a lock for atomicity), and the store is shared by every *)
(* worker process.                                                         *)
(***************************************************************************)
EXTENDS Integers, Sequences, FiniteSets, TLC

\* ------------------------------------------------------------------ bounds
NumProcs == 2

Procs == 1..NumProcs

\* ------------------------------------------------------------ fsm.py State
IDLE == "IDLE"
PLANNING == "PLANNING"
READY == "READY"
QUIZZING == "QUIZZING"
States == {IDLE, PLANNING, READY, QUIZZING}

\* A key the store does not hold (never written, deleted or expired).
ABSENT == "ABSENT"

\* Python's None, and the empty string.
None == "None"
EmptyStr == ""

\* ------------------------------------------------------ request inputs
Topics == {"vectors"}
Levels == {"basic"}
NoTopic == None
QuestionCounts == {3}

\* ------------------------------------------------------------- variables
VARIABLES
    fsm,      \* store: asb:fsm:{uid}, a state name or ABSENT
    ctx,      \* store: asb:ctx:{uid}, a hash: field -> stored string or ABSENT
    quiz,     \* store: asb:quiz:{uid}, the session payload (present or not)
    pc,       \* per unit of work: the position in its handler
    loc,      \* per unit of work: the handler's local variables
    result,   \* per unit of work: what the handler returned or raised
    alone,    \* per unit of work: no other unit wrote to the store since it began
    fsm0      \* the stored state before the calls of the guarded-transition harness

vars == <<fsm, ctx, quiz, pc, loc, result, alone, fsm0>>
store == <<fsm, ctx, quiz>>

\* ------------------------------------------------------------ fsm.py store
CtxFields == {"topic", "level", "doc_url", "calendar_info"}
EmptyCtx == [k \in CtxFields |-> ABSENT]

\* get_state: the stored value, or IDLE when the key is absent.
StateOf(stored) == IF stored = ABSENT THEN IDLE ELSE stored
get_state == StateOf(fsm)

\* Typed Python values handed to set_ctx.
StrVal(s) == [ty |-> "str", v |-> s]
UrlVal(s) == [ty |-> "url", v |-> s]
DictVal(d) == [ty |-> "dict", v |-> d]
NoneVal == [ty |-> "none", v |-> None]
\* A bool or an int that json.loads produced, kept as the JSON text it had.
BoolVal(text) == [ty |-> "bool", v |-> text]
IntVal(text) == [ty |-> "int", v |-> text]

\* json.dumps raises TypeError for an object that is none of dict, list, str,
\* number, bool or None.
JsonTypeError == "TypeError"

StubCalendar == "{\"created\": false, \"reason\": \"stub\"}"
PlanCalendar == "{\"created\": true, \"event_count\": 7}"
BadCalendar == "not json"

json_dumps(x) ==
    CASE x.ty = "dict" -> x.v
      [] x.ty = "none" -> "null"
      [] x.ty = "str" -> "\"" \o x.v \o "\""
      [] x.ty \in {"int", "bool"} -> x.v
      [] OTHER -> JsonTypeError

\* set_ctx's loop over kwargs: a str is stored as is, anything else as
\* json.dumps of it.
CtxSerialize(x) == IF x.ty = "str" THEN x.v ELSE json_dumps(x)

\* set_ctx raises before hset when a value cannot be serialised.
set_ctx_raises(kwargs) ==
    \E k \in DOMAIN kwargs : CtxSerialize(kwargs[k]) = JsonTypeError

\* The hash after hset(key, mapping): named fields replaced, the others kept.
set_ctx_store(kwargs) ==
    [k \in CtxFields |->
        IF k \in DOMAIN kwargs THEN CtxSerialize(kwargs[k]) ELSE ctx[k]]

\* json.loads on the stored strings this model writes: the JSON literals null
\* and true, a number, and the calendar objects parse; anything else is not
\* JSON and get_ctx keeps the raw string.
json_loads_ok(s) == s \in {"null", "true", "42", StubCalendar, PlanCalendar}
json_loads(s) ==
    CASE s = "null" -> NoneVal
      [] s = "true" -> BoolVal(s)
      [] s = "42" -> IntVal(s)
      [] OTHER -> DictVal(s)

\* get_ctx: every stored field, parsed when it parses.
CtxOf(hash) ==
    [k \in {f \in CtxFields : hash[f] # ABSENT} |->
        IF json_loads_ok(hash[k]) THEN json_loads(hash[k]) ELSE StrVal(hash[k])]
get_ctx == CtxOf(ctx)

\* ctx.get(key) or default, then str(): main.py:94-95 and 124-125.  The dicts
\* and ints of this model are truthy; str() of True is "True", of an int its
\* digits.
Truthy(x) == x.ty \in {"dict", "int"} \/ (x.ty = "str" /\ x.v # EmptyStr)
                \/ (x.ty = "bool" /\ x.v = "true")
PyStr(x) == IF x.ty = "bool" THEN (IF x.v = "true" THEN "True" ELSE "False") ELSE x.v
CtxGetOr(c, key, default) ==
    IF key \in DOMAIN c /\ Truthy(c[key]) THEN PyStr(c[key]) ELSE default

\* topic or str(ctx.get("topic") or "")
ResolveTopic(topic, c) ==
    IF topic # NoTopic /\ topic # EmptyStr THEN topic ELSE CtxGetOr(c, "topic", EmptyStr)
ResolveLevel(c) == CtxGetOr(c, "level", "basic")

\* ------------------------------------------------------- fsm.py quiz record
\* The key asb:quiz:{uid}: absent, or the JSON of one QuizPayload.
NoQuiz == [present |-> FALSE, questions |-> <<>>, current_index |-> 0,
           topic |-> EmptyStr, level |-> EmptyStr]
\* get_quiz: the payload, or None (NoQuiz here) when the key is absent.
get_quiz == IF quiz.present THEN quiz ELSE NoQuiz

QuizPayload(qs, idx, topic, level) ==
    [present |-> TRUE, questions |-> qs, current_index |-> idx,
     topic |-> topic, level |-> level]

\* The keyword arguments of update_quiz: the fields named and their values.
Patch(fields, idx, topic) == [fields |-> fields, current_index |-> idx, topic |-> topic]
NoPatch == Patch({}, 0, EmptyStr)
\* current.update(patch)
Patched(current, patch) ==
    [current EXCEPT
        !.current_index = IF "current_index" \in patch.fields THEN patch.current_index ELSE @,
        !.topic = IF "topic" \in patch.fields THEN patch.topic ELSE @]

\* ------------------------------------------------------ schemas.py, results
\* StudyPlanInfo: doc_url is Optional[HttpUrl], a pydantic URL object (the
\* adapters use pydantic 2's model_dump), calendar_info a dict or None.
StudyPlanInfo(doc_url, calendar_info) ==
    [doc_url |-> UrlVal(doc_url), calendar_info |-> calendar_info]
NoInfo == [doc_url |-> NoneVal, calendar_info |-> NoneVal]

FakeDocUrl == "https://docs.google.com/document/d/FAKE_M2_PLAN"
GoodDocUrl == "https://docs.google.com/document/d/PLAN"
BadDocUrl == "not a url"

\* _stub_plan
StubPlan == StudyPlanInfo(FakeDocUrl, DictVal(StubCalendar))

\* What a handler hands back: a response body, or an HTTPException.
NoResult == [kind |-> "none", status |-> 0, detail |-> EmptyStr, info |-> NoInfo,
             questions |-> <<>>]
HttpError(status, detail) == [NoResult EXCEPT !.kind = "error", !.status = status,
                                              !.detail = detail]
PayloadResult == [NoResult EXCEPT !.kind = "payload", !.status = 200]
NoneResult == [NoResult EXCEPT !.kind = "returned_none", !.status = 200]
PlanResult(info) == [NoResult EXCEPT !.kind = "plan", !.status = 200, !.info = info]
QuizResult(qs) == [NoResult EXCEPT !.kind = "quiz", !.status = 200, !.questions = qs]
SummaryResult(md) == [NoResult EXCEPT !.kind = "summary", !.status = 200, !.detail = md]
OkResult == [NoResult EXCEPT !.kind = "ok", !.status = 200]
StateResult(state) == [NoResult EXCEPT !.kind = "state", !.status = 200, !.detail = state]
ProgressResult(doc) == [NoResult EXCEPT !.kind = "progress", !.status = 200, !.detail = doc]

\* One element of a planner payload: a JSON object ("dict"; "empty" for {}),
\* or a scalar (truthy, or "falsy": 0, "", null).  ok is "true", "false",
\* "one" (the number 1) or "absent"; error and doc_url are None when the key is missing.
Item(kind, ok, error, doc_url, cal) ==
    [kind |-> kind, ok |-> ok, error |-> error, doc_url |-> doc_url, cal |-> cal]
NoItem == Item("none", "absent", None, None, NoneVal)

\* The value of resp before client.post has returned.
NoResponse == [kind |-> "none", status |-> 0, body |-> [t |-> "unparseable", items |-> <<>>]]

\* The locals of a handler; st is the state its first read of the store found
\* (main.py:56 st, fsm.py:137 current).
NoExc == [status |-> 0, detail |-> EmptyStr]
NoLoc == [op |-> "none", st |-> IDLE, from_states |-> {}, to_state |-> IDLE, topic |-> NoTopic,
          level |-> "basic", n |-> 0, body |-> 0, attempt |-> 0, exhausted |-> FALSE,
          resp |-> NoResponse, item |-> NoItem, key |-> EmptyStr, value |-> NoneVal,
          current |-> NoQuiz, patch |-> NoPatch, info |-> NoInfo, exc |-> NoExc, questions |-> <<>>]

\* ----------------------------------------------- nodes.py: planner adapter
attempts == 2

EmptyDict == Item("empty", "absent", None, None, NoneVal)
ScalarItem == Item("scalar", "absent", None, None, NoneVal)
FalsyItem == Item("falsy", "absent", None, None, NoneVal)

\* The parsed body of a response (_safe_json): None when it is not JSON, a
\* scalar, one object, or a list.
Body(t, items) == [t |-> t, items |-> items]
Unparseable == Body("unparseable", <<>>)

GoodItem == Item("dict", "true", None, GoodDocUrl, DictVal(PlanCalendar))
FailedItem == Item("dict", "false", "quota exceeded", None, NoneVal)
NoDocItem == Item("dict", "true", None, None, NoneVal)
EmptyDocItem == Item("dict", "true", None, EmptyStr, NoneVal)
BadDocItem == Item("dict", "absent", None, BadDocUrl, NoneVal)
StringCalendarItem == Item("dict", "absent", None, GoodDocUrl, StrVal(BadCalendar))
ErrorItem == Item("dict", "absent", "bad topic", None, NoneVal)
OkOneItem == Item("dict", "one", None, GoodDocUrl, NoneVal)

\* What one request to the planner ends in: no response (timeout, connection
\* error) or a status and a body.
Response(kind, status, body) == [kind |-> kind, status |-> status, body |-> body]
PlannerResponses ==
    {Response("timeout", 0, Unparseable),
     Response("connect", 0, Unparseable),
     Response("http", 503, Unparseable),
     Response("http", 404, Body("obj", <<ErrorItem>>)),
     Response("http", 200, Unparseable),
     Response("http", 200, Body("obj", <<GoodItem>>)),
     Response("http", 200, Body("list", <<FailedItem, GoodItem>>)),
     Response("http", 200, Body("list", <<FailedItem>>)),
     Response("http", 200, Body("obj", <<NoDocItem>>)),
     Response("http", 200, Body("obj", <<EmptyDocItem>>)),
     Response("http", 200, Body("obj", <<BadDocItem>>)),
     Response("http", 200, Body("obj", <<StringCalendarItem>>)),
     Response("http", 200, Body("obj", <<EmptyDict>>)),
     Response("http", 200, Body("list", <<>>)),
     Response("http", 200, Body("list", <<FalsyItem>>)),
     Response("http", 200, Body("list", <<ScalarItem>>))}

\* _pick_ok_item
FirstOk(items) ==
    LET ok == {i \in 1..Len(items) : items[i].kind = "dict" /\ items[i].ok = "true"}
    IN  IF ok = {} THEN 0 ELSE CHOOSE i \in ok : \A j \in ok : i <= j
\* A selection that takes the head of a list without looking for ok.
pick_first_item(data) ==
    CASE data.t = "list" -> IF Len(data.items) > 0 THEN data.items[1] ELSE NoItem
      [] data.t = "obj" -> data.items[1]
      [] OTHER -> NoItem

pick_ok_item(data) ==
    CASE data.t = "list" ->
            IF FirstOk(data.items) # 0 THEN data.items[FirstOk(data.items)]
            ELSE IF Len(data.items) > 0 THEN data.items[1] ELSE NoItem
      [] data.t = "obj" -> data.items[1]
      [] OTHER -> NoItem

IsDict(item) == item.kind \in {"dict", "empty"}
\* Python's "not item": None, {} and a falsy scalar.
Falsy(item) == item.kind \in {"none", "empty", "falsy"}

\* _safe_get(d, key)
safe_get_doc_url(item) == IF IsDict(item) THEN item.doc_url ELSE None
safe_get_calendar(item) == IF IsDict(item) THEN item.cal ELSE NoneVal

\* _coerce_calendar_info
coerce_calendar_info(raw) ==
    CASE raw.ty = "none" -> NoneVal
      [] raw.ty = "dict" -> raw
      [] raw.ty = "str" -> IF json_loads_ok(raw.v) /\ json_loads(raw.v).ty = "dict"
                           THEN json_loads(raw.v) ELSE NoneVal
      [] OTHER -> NoneVal

\* _extract_error_message: error of the object, or of a list's first object.
extract_error_message(data) ==
    IF data.t \in {"obj", "list"} /\ Len(data.items) > 0 /\ IsDict(data.items[1])
    THEN data.items[1].error ELSE None

Or(msg, default) == IF msg = None \/ msg = EmptyStr THEN default ELSE msg

\* pydantic's validation of StudyPlanInfo.doc_url.
ValidUrl(u) == u \in {GoodDocUrl, FakeDocUrl}

\* The outcome of one pass of trigger_n8n_plan's loop.
Retry == [kind |-> "retry", info |-> NoInfo, exc |-> NoExc]
Return(info) == [kind |-> "return", info |-> info, exc |-> NoExc]
Raise(status, detail) == [kind |-> "raise", info |-> NoInfo,
                          exc |-> [status |-> status, detail |-> detail]]

Transient(resp) ==
    resp.kind \in {"timeout", "connect"} \/ (500 <= resp.status /\ resp.status < 600)

\* A parser that falls back to the stub plan when doc_url is missing.
ParsePlanStubOnMissing(data) ==
    LET item == pick_ok_item(data)
        doc_url == safe_get_doc_url(item)
    IN  IF Falsy(item) \/ (IsDict(item) /\ item.ok = "false")
        THEN Raise(400, Or(IF IsDict(item) THEN item.error ELSE None,
                           "n8n: plan not formed"))
        ELSE IF doc_url = None \/ doc_url = EmptyStr \/ ~ValidUrl(doc_url)
        THEN Return(StubPlan)
        ELSE Return(StudyPlanInfo(doc_url, coerce_calendar_info(safe_get_calendar(item))))

ParsePlan(data) ==
    LET item == pick_ok_item(data)
        doc_url == safe_get_doc_url(item)
    IN  IF Falsy(item) \/ (IsDict(item) /\ item.ok = "false")
        THEN Raise(400, Or(IF IsDict(item) THEN item.error ELSE None,
                           "n8n: plan not formed"))
        ELSE IF doc_url = None \/ doc_url = EmptyStr
        THEN Raise(422, "n8n: no doc_url")
        ELSE IF ~ValidUrl(doc_url)
        THEN Return(StubPlan)
        ELSE Return(StudyPlanInfo(doc_url, coerce_calendar_info(safe_get_calendar(item))))

\* A loop that also retries a 4xx response.
trigger_n8n_plan_retry_4xx(resp, attempt) ==
    IF Transient(resp) \/ (400 <= resp.status /\ resp.status < 500)
    THEN IF attempt < attempts THEN Retry ELSE Return(StubPlan)
    ELSE ParsePlan(resp.body)

trigger_n8n_plan(resp, attempt) ==
    IF Transient(resp)
    THEN IF attempt < attempts THEN Retry ELSE Return(StubPlan)
    ELSE IF 400 <= resp.status /\ resp.status < 500
    THEN Raise(resp.status, Or(extract_error_message(resp.body), "n8n returned client error"))
    ELSE ParsePlan(resp.body)

\* ----------------------------------------------- nodes.py: content adapter
\* A parsed JSON value of a content back-end's body.  An object keeps its keys
\* in document order (a Python dict keeps insertion order).
JNull == [t |-> "null"]
JStr(s) == [t |-> "str", s |-> s]
JInt(n) == [t |-> "int", n |-> n]
JBool(b) == [t |-> "bool", b |-> b]
JList(items) == [t |-> "list", items |-> items]
JObj(keys, vals) == [t |-> "obj", keys |-> keys, vals |-> vals]

\* key in x, x.get(key)
Has(x, key) == \E i \in 1..Len(x.keys) : x.keys[i] = key
Get(x, key) ==
    IF Has(x, key) THEN x.vals[CHOOSE i \in 1..Len(x.keys) : x.keys[i] = key] ELSE JNull

\* Python's truth value, and "a or b".
JTruthy(x) ==
    CASE x.t = "null" -> FALSE
      [] x.t = "str" -> x.s # EmptyStr
      [] x.t = "int" -> x.n # 0
      [] x.t = "bool" -> x.b
      [] x.t = "list" -> Len(x.items) > 0
      [] x.t = "obj" -> Len(x.keys) > 0
JOr(a, b) == IF JTruthy(a) THEN a ELSE b

\* isinstance(x, int): bool is a subclass of int in Python, True == 1.
IsInstanceInt(x) == x.t \in {"int", "bool"}
IntOf(x) == IF x.t = "bool" THEN (IF x.b THEN 1 ELSE 0) ELSE x.n

\* str(x); the repr of a container is not spelled out.
JStrOf(x) ==
    CASE x.t = "str" -> x.s
      [] x.t = "int" -> ToString(x.n)
      [] x.t = "bool" -> IF x.b THEN "True" ELSE "False"
      [] x.t = "null" -> "None"
      [] x.t = "list" -> "[...]"
      [] x.t = "obj" -> "{...}"

\* The characters of the strings this model's payloads use where a list is
\* expected.
Chars(s) == IF s = "AB" THEN <<"A", "B">> ELSE <<s>>

\* "for o in x": the items of a list, the keys of a dict, the characters of a
\* str; anything else raises TypeError.
NotIterable(x) == x.t \in {"null", "int", "bool"}
Iterate(x) ==
    CASE x.t = "list" -> x.items
      [] x.t = "obj" -> [i \in 1..Len(x.keys) |-> JStr(x.keys[i])]
      [] x.t = "str" -> [i \in 1..Len(Chars(x.s)) |-> JStr(Chars(x.s)[i])]
      [] OTHER -> <<>>

QuizQuestion(q, options, idx) == [q |-> q, options |-> options, answer_index |-> idx]

Max(a, b) == IF a >= b THEN a ELSE b

\* _fake_questions (the prompt's wording is rendered in ASCII)
fake_questions(n, topic) ==
    [i \in 1..Max(1, n) |->
        JObj(<<"q", "options", "answer_index">>,
             <<JStr(ToString(i) \o ". Topic: " \o topic \o ". Choose the right option."),
               JList(<<JStr("A"), JStr("B"), JStr("C"), JStr("D")>>),
               JInt(0)>>)]

\* _coerce_questions: 4 options (cut, then padded), answer_index in 0..3 or 0.
PadOptions(options) ==
    [k \in 1..4 |-> IF k <= Len(options) THEN options[k] ELSE "Variant " \o ToString(k)]
\* nodes.py:314-321 raise for an item that is no dict (no .get) and for options
\* that cannot be iterated; nodes.py:313 for a raw that cannot be iterated.
coerce_item_raises(item) ==
    item.t # "obj" \/ NotIterable(JOr(Get(item, "options"), JList(<<>>)))
coerce_raises(raw) ==
    NotIterable(raw) \/ \E i \in 1..Len(Iterate(raw)) : coerce_item_raises(Iterate(raw)[i])
coerce_question(item) ==
    LET options == Iterate(JOr(Get(item, "options"), JList(<<>>)))
        idx == Get(item, "answer_index")
    IN  QuizQuestion(JStrOf(JOr(Get(item, "q"), JOr(Get(item, "question"), JStr("Question")))),
                     PadOptions([k \in 1..Len(options) |-> JStrOf(options[k])]),
                     IF IsInstanceInt(idx) /\ 0 <= IntOf(idx) /\ IntOf(idx) < 4
                     THEN IntOf(idx) ELSE 0)
coerce_questions(raw) == [i \in 1..Len(Iterate(raw)) |-> coerce_question(Iterate(raw)[i])]

\* _extract_questions_from_flowise: walk collects, in document order, every
\* object with a q or question key and an options key, and does not look
\* inside such an object.
RECURSIVE walk(_)
RECURSIVE walk_all(_)
walk(x) ==
    IF x.t = "obj"
    THEN IF (Has(x, "q") \/ Has(x, "question")) /\ Has(x, "options")
         THEN <<JObj(<<"q", "options", "answer_index">>,
                     <<JOr(Get(x, "q"), Get(x, "question")),
                       JOr(Get(x, "options"), JList(<<>>)),
                       IF IsInstanceInt(Get(x, "answer_index"))
                       THEN Get(x, "answer_index") ELSE JInt(0)>>)>>
         ELSE walk_all(x.vals)
    ELSE IF x.t = "list" THEN walk_all(x.items) ELSE <<>>
walk_all(xs) == IF Len(xs) = 0 THEN <<>> ELSE walk(Head(xs)) \o walk_all(Tail(xs))
extract_questions_from_flowise(data) == walk(data)

\* What the request to the quiz endpoint ends in: a failure (timeout,
\* connection error, non-2xx status: ok is FALSE), a body that is not JSON
\* (parsed is FALSE), or a JSON body.
QuizReply(ok, parsed, body) == [ok |-> ok, parsed |-> parsed, body |-> body]
QuizFailure == QuizReply(FALSE, FALSE, JNull)
UpstreamRaw == JObj(<<"q", "options">>, <<JStr("Q1"), JList(<<JStr("A"), JStr("B")>>)>>)
QuizResponses ==
    {QuizFailure,
     QuizReply(TRUE, TRUE, JObj(<<"questions">>, <<JList(<<>>)>>)),
     QuizReply(TRUE, TRUE, JObj(<<"questions">>, <<JList(<<UpstreamRaw>>)>>))}

\* What the request to the summary endpoint ends in: a failure, or a body
\* {"markdown": ...}.
ContentResponse(ok, markdown) == [ok |-> ok, markdown |-> markdown]
SummaryResponses ==
    {ContentResponse(FALSE, None), ContentResponse(TRUE, None),
     ContentResponse(TRUE, "# Notes")}

\* A call that answers with no questions when the request fails.
call_flowise_quiz_empty_on_failure(n, topic, resp) ==
    IF ~resp.ok THEN <<>>
    ELSE coerce_questions(JList(fake_questions(n, topic)))

\* call_flowise_quiz: any exception inside the try (data.get on a body that is
\* no dict, _coerce_questions) ends in the placeholder questions.
call_flowise_quiz(n, topic, resp) ==
    LET fallback == coerce_questions(JList(fake_questions(n, topic)))
        data == IF resp.parsed /\ JTruthy(resp.body) THEN resp.body ELSE JObj(<<>>, <<>>)
    IN  IF ~resp.ok \/ data.t # "obj" THEN fallback
        ELSE LET named == Get(data, "questions")
                 found == IF JTruthy(named) THEN named
                          ELSE JList(extract_questions_from_flowise(data))
                 raw == IF JTruthy(found) THEN found ELSE JList(fake_questions(n, topic))
             IN  IF coerce_raises(raw) THEN fallback ELSE coerce_questions(raw)

\* call_flowise_summary
SummaryStub(topic) == "# " \o topic \o " (summary stub)"
call_flowise_summary(topic, resp) ==
    IF resp.ok /\ resp.markdown # None /\ resp.markdown # EmptyStr
    THEN resp.markdown ELSE SummaryStub(topic)

\* ------------------------------------------------------------ units of work
InFlight(p) == pc[p] \notin {"idle", "done"}

\* The operations whose run without interference is observed.
IsolatedOps == {"quiz_result", "quiz", "update_quiz"}

\* The isolation flags after unit p has written to the store (p = 0: after a
\* record has expired).
AfterWrite(p) ==
    [q \in Procs |-> IF q # p /\ InFlight(q) /\ loc[q].op \in IsolatedOps
                     THEN FALSE ELSE alone[q]]

\* fsm.py:49-51 set_state, fsm.py:100-102 set_quiz, fsm.py:124-126 clear_quiz
set_state(state) == fsm' = state
set_quiz(payload) == quiz' = payload
clear_quiz == quiz' = NoQuiz

Goto(p, label) == pc' = [pc EXCEPT ![p] = label]
Finish(p, res) == /\ pc' = [pc EXCEPT ![p] = "done"]
                  /\ result' = [result EXCEPT ![p] = res]
Leave(p, op) == loc' = [loc EXCEPT ![p] = [NoLoc EXCEPT !.op = op, !.st = loc[p].st]]

\* ---------------------------------------------------- main.py: POST /study
\* A check that forgets the running quiz.
StudyBlockedPlanningOnly(st) == st = PLANNING

\* main.py:57: planning is refused while a plan or a quiz is running.
StudyBlocked(st) == st \in {PLANNING, QUIZZING}

\* main.py:56-58: get_state and the check.
StudyBegin(p) ==
    /\ pc[p] = "idle"
    /\ IF StudyBlocked(get_state)
       THEN /\ Finish(p, HttpError(409, get_state))
            /\ loc' = [loc EXCEPT ![p] = [NoLoc EXCEPT !.op = "study", !.st = get_state]]
       ELSE /\ Goto(p, "study_set_planning")
            /\ \E topic \in Topics, depth \in Levels :
                 loc' = [loc EXCEPT ![p] = [NoLoc EXCEPT !.op = "study", !.st = get_state,
                                                         !.topic = topic, !.level = depth]]
            /\ UNCHANGED result
    /\ alone' = [alone EXCEPT ![p] = TRUE]
    /\ UNCHANGED <<store, fsm0>>

\* main.py:61: set_state(uid, PLANNING)
StudySetPlanning(p) ==
    /\ pc[p] = "study_set_planning"
    /\ set_state(PLANNING)
    /\ loc' = [loc EXCEPT ![p].attempt = 1]
    /\ Goto(p, "plan_post")
    /\ alone' = AfterWrite(p)
    /\ UNCHANGED <<ctx, quiz, result, fsm0>>

\* main.py:64, nodes.py:53-113: one request of trigger_n8n_plan's loop; attempt
\* is the loop's counter, the number of the request being made.  exhausted
\* records that the call returned at nodes.py:102, every attempt having ended
\* in a timeout, a connection error or a 5xx.  With traced, the handler's
\* locals keep resp, the response of the last request, and attempt after the
\* loop.
PlanRequest(p, traced) ==
    /\ pc[p] = "plan_post"
    /\ \E resp \in PlannerResponses :
         LET out == trigger_n8n_plan(resp, loc[p].attempt)
             seen == IF traced THEN resp ELSE NoResponse
             last == IF traced THEN loc[p].attempt ELSE 0
         IN  CASE out.kind = "retry" ->
                    /\ loc' = [loc EXCEPT ![p].attempt = @ + 1, ![p].resp = seen]
                    /\ UNCHANGED pc
               [] out.kind = "return" ->
                    /\ loc' = [loc EXCEPT ![p].info = out.info, ![p].attempt = last,
                                          ![p].resp = seen,
                                          ![p].exhausted = Transient(resp)]
                    /\ Goto(p, "study_set_ctx")
               [] out.kind = "raise" ->
                    /\ loc' = [loc EXCEPT ![p].exc = out.exc, ![p].attempt = last,
                                          ![p].resp = seen]
                    /\ Goto(p, "study_except")
    /\ UNCHANGED <<store, result, alone, fsm0>>

PlanPost(p) == PlanRequest(p, FALSE)

\* main.py:66: the keyword arguments of set_ctx.
StudyCtxArgs(l) ==
    [topic |-> StrVal(l.topic), level |-> StrVal(l.level),
     doc_url |-> l.info.doc_url, calendar_info |-> l.info.calendar_info]

\* main.py:66, fsm.py:63-77: set_ctx; a TypeError of json.dumps is caught at
\* main.py:73 before anything is written.
StudySetCtx(p) ==
    /\ pc[p] = "study_set_ctx"
    /\ IF set_ctx_raises(StudyCtxArgs(loc[p]))
       THEN /\ loc' = [loc EXCEPT ![p].exc = [status |-> 500, detail |-> JsonTypeError]]
            /\ Goto(p, "study_except")
            /\ UNCHANGED <<ctx, alone>>
       ELSE /\ ctx' = set_ctx_store(StudyCtxArgs(loc[p]))
            /\ Goto(p, "study_set_ready")
            /\ alone' = AfterWrite(p)
            /\ UNCHANGED loc
    /\ UNCHANGED <<fsm, quiz, result, fsm0>>

\* An except clause that re-raises without set_state(uid, IDLE).
StudySetStateNoReset(p) ==
    /\ pc[p] \in {"study_set_ready", "study_except"}
    /\ IF pc[p] = "study_set_ready"
       THEN set_state(READY) /\ Finish(p, PlanResult(loc[p].info))
       ELSE UNCHANGED fsm /\ Finish(p, HttpError(loc[p].exc.status, loc[p].exc.detail))
    /\ Leave(p, "study")
    /\ alone' = AfterWrite(p)
    /\ UNCHANGED <<ctx, quiz, fsm0>>

\* A handler without the "except HTTPException" clause: the planner's business
\* error is caught as any exception and answered as 500.
StudySetStateMasked(p) ==
    /\ pc[p] \in {"study_set_ready", "study_except"}
    /\ IF pc[p] = "study_set_ready"
       THEN set_state(READY) /\ Finish(p, PlanResult(loc[p].info))
       ELSE set_state(IDLE) /\ Finish(p, HttpError(500, "planning failed"))
    /\ Leave(p, "study")
    /\ alone' = AfterWrite(p)
    /\ UNCHANGED <<ctx, quiz, fsm0>>

\* main.py:67-76: the handler's last write.  After set_ctx: set_state(uid,
\* READY) and the plan is returned; in either except clause: set_state(uid,
\* IDLE) and the error goes to the caller.
StudySetState(p) ==
    /\ pc[p] \in {"study_set_ready", "study_except"}
    /\ IF pc[p] = "study_set_ready"
       THEN set_state(READY) /\ Finish(p, PlanResult(loc[p].info))
       ELSE set_state(IDLE) /\ Finish(p, HttpError(loc[p].exc.status, loc[p].exc.detail))
    /\ Leave(p, "study")
    /\ alone' = AfterWrite(p)
    /\ UNCHANGED <<ctx, quiz, fsm0>>

\* --------------------------------------------- fsm.py: fsm_guard_transition
\* fsm.py:138: the check between the read and the write.
fsm_guard_admits(current, from_states) == current \in from_states

\* A refusal that reports IDLE whatever the state is.
fsm_guard_refused_idle(current) == IDLE

\* What fsm_guard_transition returns when it does not write: the state read.
fsm_guard_refused(current) == current

\* ---------------------------------------------------- main.py: GET /summary
\* A handler whose ensure_state also allows QUIZZING.
SummaryBeginWhileQuizzing(p) ==
    /\ pc[p] = "idle"
    /\ IF get_state \notin {READY, QUIZZING}
       THEN /\ Finish(p, HttpError(409, get_state))
            /\ loc' = [loc EXCEPT ![p] = [NoLoc EXCEPT !.op = "summary", !.st = get_state]]
       ELSE /\ Goto(p, "summary_get_ctx")
            /\ \E topic \in Topics \cup {NoTopic} :
                 loc' = [loc EXCEPT ![p] = [NoLoc EXCEPT !.op = "summary", !.st = get_state,
                                                         !.topic = topic]]
            /\ UNCHANGED result
    /\ alone' = [alone EXCEPT ![p] = TRUE]
    /\ UNCHANGED <<store, fsm0>>

\* fsm.py:54-58 ensure_state(uid, {READY}), main.py:87-90
SummaryBegin(p) ==
    /\ pc[p] = "idle"
    /\ IF get_state \notin {READY}
       THEN /\ Finish(p, HttpError(409, get_state))
            /\ loc' = [loc EXCEPT ![p] = [NoLoc EXCEPT !.op = "summary", !.st = get_state]]
       ELSE /\ Goto(p, "summary_get_ctx")
            /\ \E topic \in Topics \cup {NoTopic} :
                 loc' = [loc EXCEPT ![p] = [NoLoc EXCEPT !.op = "summary", !.st = get_state,
                                                         !.topic = topic]]
            /\ UNCHANGED result
    /\ alone' = [alone EXCEPT ![p] = TRUE]
    /\ UNCHANGED <<store, fsm0>>

\* main.py:92-98: get_ctx and the topic's resolution.
SummaryGetCtx(p) ==
    /\ pc[p] = "summary_get_ctx"
    /\ LET topic == ResolveTopic(loc[p].topic, get_ctx)
       IN  IF topic = EmptyStr
           THEN Finish(p, HttpError(400, "topic undefined")) /\ Leave(p, "summary")
           ELSE /\ loc' = [loc EXCEPT ![p].topic = topic, ![p].level = ResolveLevel(get_ctx)]
                /\ Goto(p, "summary_call")
                /\ UNCHANGED result
    /\ UNCHANGED <<store, alone, fsm0>>

\* main.py:100, nodes.py:126-144
SummaryCall(p) ==
    /\ pc[p] = "summary_call"
    /\ \E resp \in SummaryResponses :
         Finish(p, SummaryResult(call_flowise_summary(loc[p].topic, resp)))
    /\ Leave(p, "summary")
    /\ UNCHANGED <<store, alone, fsm0>>

\* ------------------------------------------------------- main.py: GET /quiz
\* main.py:114-116, fsm.py:137-139: the read of fsm_guard_transition and, when
\* it does not admit, the comparison of the state it returns with QUIZZING.
QuizBegin(p) ==
    /\ pc[p] = "idle"
    /\ IF ~fsm_guard_admits(get_state, {READY}) /\ fsm_guard_refused(get_state) # QUIZZING
       THEN /\ Finish(p, HttpError(409, fsm_guard_refused(get_state)))
            /\ loc' = [loc EXCEPT ![p] = [NoLoc EXCEPT !.op = "quiz", !.st = get_state]]
       ELSE /\ \E topic \in Topics \cup {NoTopic}, n \in QuestionCounts :
                 loc' = [loc EXCEPT ![p] = [NoLoc EXCEPT !.op = "quiz", !.st = get_state,
                                                         !.topic = topic, !.n = n]]
            /\ IF fsm_guard_admits(get_state, {READY})
               THEN Goto(p, "quiz_guard_write")
               ELSE Goto(p, "quiz_get_ctx")
            /\ UNCHANGED result
    /\ alone' = [alone EXCEPT ![p] = TRUE]
    /\ UNCHANGED <<store, fsm0>>

\* fsm.py:140-141: set_state(uid, to_state); return to_state
QuizGuardWrite(p) ==
    /\ pc[p] = "quiz_guard_write"
    /\ set_state(QUIZZING)
    /\ Goto(p, "quiz_get_ctx")
    /\ alone' = AfterWrite(p)
    /\ UNCHANGED <<ctx, quiz, loc, result, fsm0>>

\* main.py:122-128: get_ctx and the topic's resolution.
QuizGetCtx(p) ==
    /\ pc[p] = "quiz_get_ctx"
    /\ LET topic == ResolveTopic(loc[p].topic, get_ctx)
       IN  /\ loc' = [loc EXCEPT ![p].topic = topic, ![p].level = ResolveLevel(get_ctx)]
           /\ IF topic = EmptyStr THEN Goto(p, "quiz_revert") ELSE Goto(p, "quiz_call")
    /\ UNCHANGED <<store, result, alone, fsm0>>

\* A handler that raises the validation error without set_state(uid, READY).
QuizRevertNoReset(p) ==
    /\ pc[p] = "quiz_revert"
    /\ Finish(p, HttpError(400, "topic undefined"))
    /\ Leave(p, "quiz")
    /\ UNCHANGED <<store, alone, fsm0>>

\* main.py:130-131: back to READY, and the validation error.
QuizRevert(p) ==
    /\ pc[p] = "quiz_revert"
    /\ set_state(READY)
    /\ Finish(p, HttpError(400, "topic undefined"))
    /\ Leave(p, "quiz")
    /\ alone' = AfterWrite(p)
    /\ UNCHANGED <<ctx, quiz, fsm0>>

\* main.py:133, nodes.py:150-169
QuizCall(p) ==
    /\ pc[p] = "quiz_call"
    /\ \E resp \in QuizResponses :
         loc' = [loc EXCEPT ![p].questions =
                               call_flowise_quiz(loc[p].n, loc[p].topic, resp)]
    /\ Goto(p, "quiz_set_quiz")
    /\ UNCHANGED <<store, result, alone, fsm0>>

\* A handler that returns the questions without storing the session.
QuizSetQuizForgets(p) ==
    /\ pc[p] = "quiz_set_quiz"
    /\ Finish(p, QuizResult(loc[p].questions))
    /\ Leave(p, "quiz")
    /\ UNCHANGED <<store, alone, fsm0>>

\* main.py:134-135: set_quiz (fsm.py:100-102); return q
QuizSetQuiz(p) ==
    /\ pc[p] = "quiz_set_quiz"
    /\ set_quiz(QuizPayload(loc[p].questions, 0, loc[p].topic, loc[p].level))
    /\ Finish(p, QuizResult(loc[p].questions))
    /\ Leave(p, "quiz")
    /\ alone' = AfterWrite(p)
    /\ UNCHANGED <<fsm, ctx, fsm0>>

\* ------------------------------------------------ main.py: POST /quiz/result
\* main.py:148: clear_quiz (fsm.py:124-126)
QuizResultBegin(p) ==
    /\ pc[p] = "idle"
    /\ clear_quiz
    /\ loc' = [loc EXCEPT ![p] = [NoLoc EXCEPT !.op = "quiz_result"]]
    /\ Goto(p, "qr_set_state")
    /\ alone' = [AfterWrite(p) EXCEPT ![p] = TRUE]
    /\ UNCHANGED <<fsm, ctx, result, fsm0>>

\* main.py:150: set_state(uid, READY)
QuizResultSetState(p) ==
    /\ pc[p] = "qr_set_state"
    /\ set_state(READY)
    /\ Goto(p, "qr_persist")
    /\ alone' = AfterWrite(p)
    /\ UNCHANGED <<ctx, quiz, loc, result, fsm0>>

\* A handler that puts the state back when persist_progress raises.
QuizResultPersistRollback(p) ==
    /\ pc[p] = "qr_persist"
    /\ \E persisted \in BOOLEAN :
         IF persisted
         THEN Finish(p, OkResult) /\ UNCHANGED fsm
         ELSE Finish(p, HttpError(500, "result not saved")) /\ set_state(QUIZZING)
    /\ UNCHANGED <<ctx, quiz, loc, alone, fsm0>>

\* main.py:151-155: persist_progress returns, or raises and the handler
\* answers 500.
QuizResultPersist(p) ==
    /\ pc[p] = "qr_persist"
    /\ \E persisted \in BOOLEAN :
         Finish(p, IF persisted THEN OkResult ELSE HttpError(500, "result not saved"))
    /\ UNCHANGED <<store, loc, alone, fsm0>>

\* ---------------------------------------------------- main.py: GET /progress
\* A handler that fails when the context record is missing.
ProgressNeedsContext(p) ==
    /\ pc[p] = "idle"
    /\ loc' = [loc EXCEPT ![p] = [NoLoc EXCEPT !.op = "progress"]]
    /\ Finish(p, IF ctx = EmptyCtx THEN HttpError(500, "KeyError")
                 ELSE ProgressResult(CtxGetOr(get_ctx, "doc_url", None)))
    /\ alone' = [alone EXCEPT ![p] = TRUE]
    /\ UNCHANGED <<store, fsm0>>

Progress(p) ==
    /\ pc[p] = "idle"
    /\ loc' = [loc EXCEPT ![p] = [NoLoc EXCEPT !.op = "progress"]]
    /\ Finish(p, ProgressResult(CtxGetOr(get_ctx, "doc_url", None)))
    /\ alone' = [alone EXCEPT ![p] = TRUE]
    /\ UNCHANGED <<store, fsm0>>

\* The response has gone out; the unit of work serves the next request.
Respond(p) ==
    /\ pc[p] = "done"
    /\ pc' = [pc EXCEPT ![p] = "idle"]
    /\ loc' = [loc EXCEPT ![p] = NoLoc]
    /\ result' = [result EXCEPT ![p] = NoResult]
    /\ alone' = [alone EXCEPT ![p] = TRUE]
    /\ UNCHANGED <<store, fsm0>>

\* ------------------------------------------------------------ specification
Init ==
    /\ fsm = ABSENT
    /\ ctx = EmptyCtx
    /\ quiz = NoQuiz
    /\ pc = [p \in Procs |-> "idle"]
    /\ loc = [p \in Procs |-> NoLoc]
    /\ result = [p \in Procs |-> NoResult]
    /\ alone = [p \in Procs |-> TRUE]
    /\ fsm0 = ABSENT

Next ==
    \E p \in Procs :
        \/ StudyBegin(p)
        \/ StudySetPlanning(p)
        \/ PlanPost(p)
        \/ StudySetCtx(p)
        \/ StudySetState(p)
        \/ SummaryBegin(p)
        \/ SummaryGetCtx(p)
        \/ SummaryCall(p)
        \/ QuizBegin(p)
        \/ QuizGuardWrite(p)
        \/ QuizGetCtx(p)
        \/ QuizRevert(p)
        \/ QuizCall(p)
        \/ QuizSetQuiz(p)
        \/ QuizResultBegin(p)
        \/ QuizResultSetState(p)
        \/ QuizResultPersist(p)
        \/ Progress(p)
        \/ Respond(p)

Spec == Init /\ [][Next]_vars

\* ------------------------------------------------------- the store's expiry
\* A key set with setex is dropped by the store when its TTL runs out.
ExpireState ==
    /\ fsm # ABSENT
    /\ fsm' = ABSENT
    /\ alone' = AfterWrite(0)
    /\ UNCHANGED <<ctx, quiz, pc, loc, result, fsm0>>

ExpireQuiz ==
    /\ quiz.present
    /\ quiz' = NoQuiz
    /\ alone' = AfterWrite(0)
    /\ UNCHANGED <<fsm, ctx, pc, loc, result, fsm0>>

NextTTL == Next \/ ExpireState \/ ExpireQuiz

\* The facade with the store's expiry.
SpecTTL == Init /\ [][NextTTL]_vars

\* ------------------------------------------- start planning, requests traced
PlanPostTraced(p) == PlanRequest(p, TRUE)

\* Concurrent start-planning requests, with the responses of the planner kept
\* in the handler's locals.
NextPlan ==
    \E p \in Procs :
        \/ StudyBegin(p)
        \/ StudySetPlanning(p)
        \/ PlanPostTraced(p)
        \/ StudySetCtx(p)
        \/ StudySetState(p)
        \/ Respond(p)

SpecPlan == Init /\ [][NextPlan]_vars

\* ------------------------------------- fsm_guard_transition, called directly
GuardFroms == {{READY}, {IDLE, READY}}
GuardTos == {QUIZZING, PLANNING}

\* fsm.py:137-139: get_state and the check; the state read is returned when
\* it is not in from_states.
GuardRead(p) ==
    /\ pc[p] = "idle"
    /\ \E from_states \in GuardFroms, to_state \in GuardTos :
         /\ loc' = [loc EXCEPT ![p] = [NoLoc EXCEPT !.op = "guard",
                                                 !.from_states = from_states,
                                                 !.to_state = to_state]]
         /\ IF fsm_guard_admits(get_state, from_states)
            THEN Goto(p, "guard_write") /\ UNCHANGED result
            ELSE Finish(p, StateResult(fsm_guard_refused(get_state)))
    /\ UNCHANGED <<store, alone, fsm0>>

\* fsm.py:140-141: set_state(uid, to_state); return to_state
GuardWrite(p) ==
    /\ pc[p] = "guard_write"
    /\ set_state(loc[p].to_state)
    /\ Finish(p, StateResult(loc[p].to_state))
    /\ UNCHANGED <<ctx, quiz, loc, alone, fsm0>>

\* Every unit of work calls fsm_guard_transition once, from any stored state.
InitGuard ==
    /\ fsm \in States \cup {ABSENT}
    /\ fsm0 = fsm
    /\ ctx = EmptyCtx
    /\ quiz = NoQuiz
    /\ pc = [p \in Procs |-> "idle"]
    /\ loc = [p \in Procs |-> NoLoc]
    /\ result = [p \in Procs |-> NoResult]
    /\ alone = [p \in Procs |-> TRUE]

NextGuard == \E p \in Procs : GuardRead(p) \/ GuardWrite(p)

SpecGuard == InitGuard /\ [][NextGuard]_vars

\* ------------------------------------------- summary over a stored context
\* Topics a request may carry (StudyRequest.topic: any string of 2 characters
\* or more).
CtxTopics == {"vectors", "null", "true", "42"}

\* fsm.py:63-77 set_ctx, called with the keywords of main.py:66 and a document
\* reference that is a str.
CtxSet(p) ==
    /\ pc[p] = "idle"
    /\ \E topic \in CtxTopics, depth \in Levels, cal \in {NoneVal, DictVal(PlanCalendar)} :
         ctx' = set_ctx_store([topic |-> StrVal(topic), level |-> StrVal(depth),
                               doc_url |-> StrVal(GoodDocUrl), calendar_info |-> cal])
    /\ loc' = [loc EXCEPT ![p] = [NoLoc EXCEPT !.op = "set_ctx"]]
    /\ Finish(p, OkResult)
    /\ alone' = AfterWrite(p)
    /\ UNCHANGED <<fsm, quiz, fsm0>>

\* The state READY (as record quiz result leaves it) and no context yet.
InitCtx ==
    /\ fsm = READY
    /\ fsm0 = READY
    /\ ctx = EmptyCtx
    /\ quiz = NoQuiz
    /\ pc = [p \in Procs |-> "idle"]
    /\ loc = [p \in Procs |-> NoLoc]
    /\ result = [p \in Procs |-> NoResult]
    /\ alone = [p \in Procs |-> TRUE]

NextCtx ==
    \E p \in Procs :
        \/ CtxSet(p)
        \/ SummaryBegin(p)
        \/ SummaryGetCtx(p)
        \/ SummaryCall(p)
        \/ Progress(p)
        \/ Respond(p)

SpecCtx == InitCtx /\ [][NextCtx]_vars

\* ------------------------------------------------ _pick_ok_item, called directly
MaxItems == 2

\* The elements a planner payload is made of.
PickItems == {GoodItem, FailedItem, ErrorItem, NoDocItem, OkOneItem, EmptyDict,
              ScalarItem, FalsyItem}
ItemLists == UNION {[1..n -> PickItems] : n \in 0..MaxItems}

\* Parsed planner payloads: None, a scalar, one object, a list.
PickPayloads ==
    {Unparseable, Body("scalar", <<>>)}
        \cup {Body("obj", <<it>>) : it \in {x \in PickItems : IsDict(x)}}
        \cup {Body("list", items) : items \in ItemLists}

\* nodes.py:68: item = _pick_ok_item(data), on the body of a 2xx response; the
\* function reads nothing but its argument, so the calls are taken one at a time.
PickOn(p) ==
    /\ \A q \in Procs : pc[q] = "idle"
    /\ \E data \in PickPayloads :
         loc' = [loc EXCEPT ![p] = [NoLoc EXCEPT !.op = "pick_ok_item",
                                                 !.resp = Response("http", 200, data),
                                                 !.item = pick_ok_item(data)]]
    /\ Finish(p, OkResult)
    /\ UNCHANGED <<store, alone, fsm0>>

NextPick == \E p \in Procs : PickOn(p) \/ Respond(p)

SpecPick == Init /\ [][NextPick]_vars

\* --------------------------------------------- call_flowise_quiz, called directly
\* Question objects of a back-end.
Strs(xs) == [i \in 1..Len(xs) |-> JStr(xs[i])]
Question(keys, vals) == JObj(keys, vals)
Q1 == Question(<<"question", "options">>, <<JStr("Q1"), JList(Strs(<<"A", "B">>))>>)
Q2 == Question(<<"q", "options", "answer_index">>,
               <<JStr("Q2"), JList(Strs(<<"A", "B", "C", "D", "E">>)), JInt(2)>>)
QIndex(idx) == Question(<<"q", "options", "answer_index">>,
                        <<JStr("Q"), JList(Strs(<<"A", "B", "C", "D">>)), idx>>)
QBare == Question(<<"q">>, <<JStr("Q3")>>)
QMixed == Question(<<"q", "options", "answer_index">>,
                   <<JInt(7), JList(<<JInt(1), JBool(TRUE), JNull>>), JInt(3)>>)
QOptions(options) == Question(<<"q", "options">>, <<JStr("Q"), options>>)

\* A body, the question objects it carries, and where: under the "questions"
\* key ("named"), inside other containers ("wrapped"), or in no usable form
\* ("other").
Payload(kind, qs, body) == [kind |-> kind, qs |-> qs, body |-> body]
Named(qs) == Payload("named", qs, JObj(<<"questions">>, <<JList(qs)>>))
QuizBodies ==
    <<Named(<<Q2>>),
      Named(<<Q1, Q2>>),
      Named(<<QIndex(JInt(0))>>),
      Named(<<QIndex(JInt(3))>>),
      Named(<<QIndex(JInt(4))>>),
      Named(<<QIndex(JInt(-1))>>),
      Named(<<QIndex(JStr("2"))>>),
      Named(<<QIndex(JNull)>>),
      Named(<<QIndex(JBool(TRUE))>>),
      Named(<<QIndex(JBool(FALSE))>>),
      Named(<<QBare>>),
      Named(<<QMixed>>),
      Payload("other", <<>>, JObj(<<"questions">>, <<JList(<<QOptions(JStr("AB"))>>)>>)),
      Payload("other", <<>>, JObj(<<"questions">>, <<JList(<<QOptions(JInt(5))>>)>>)),
      Payload("other", <<>>, JObj(<<"questions">>, <<JStr("AB")>>)),
      Payload("other", <<>>, JObj(<<"questions">>, <<JList(<<JStr("Q")>>)>>)),
      Payload("other", <<>>, JObj(<<>>, <<>>)),
      Payload("other", <<>>, JNull),
      Payload("other", <<>>, JStr("AB")),
      Payload("wrapped", <<Q1>>,
              JObj(<<"nodes">>, <<JList(<<JObj(<<"output">>, <<JList(<<Q1>>)>>)>>)>>)),
      Payload("wrapped", <<Q1, Q2>>,
              JObj(<<"a">>, <<JObj(<<"b", "n">>,
                                   <<JList(<<JObj(<<"c">>, <<JList(<<Q1>>)>>)>>), Q2>>)>>)),
      Payload("wrapped", <<Q2>>, JObj(<<"result">>, <<Q2>>)),
      Payload("wrapped", <<Q1>>, JList(<<Q1>>)),
      Payload("wrapped", <<Q2, Q1>>,
              JList(<<JObj(<<"nodes">>, <<JList(<<Q2>>)>>), JList(<<Q1>>)>>))>>

\* nodes.py:150-169: one call of call_flowise_quiz; body is the index of the
\* payload answered, 0 when the request failed or the body was not JSON.
QuizCallOn(p) ==
    /\ pc[p] = "idle"
    /\ \E n \in QuestionCounts, topic \in Topics, i \in 0..Len(QuizBodies),
          ok \in BOOLEAN :
         /\ (i # 0) => ok
         /\ loc' = [loc EXCEPT ![p] = [NoLoc EXCEPT !.op = "call_flowise_quiz", !.n = n,
                                                 !.topic = topic, !.body = i]]
         /\ Finish(p, QuizResult(call_flowise_quiz(n, topic,
                        IF i = 0 THEN QuizReply(ok, FALSE, JNull)
                        ELSE QuizReply(TRUE, TRUE, QuizBodies[i].body))))
    /\ UNCHANGED <<store, alone, fsm0>>

NextQuizCall == \E p \in Procs : QuizCallOn(p) \/ Respond(p)

SpecQuizCall == Init /\ [][NextQuizCall]_vars

\* ------------------------------------- update_quiz beside record quiz result
\* The patches of the callers: the next question, the next question under a
\* renamed topic, nothing.
Patches == {Patch({"current_index"}, 1, EmptyStr),
            Patch({"current_index", "topic"}, 1, "sets"),
            NoPatch}

\* fsm.py:116-118: current = get_quiz(uid); return None when there is none.
UpdateQuizRead(p) ==
    /\ pc[p] = "idle"
    /\ \E patch \in Patches :
         loc' = [loc EXCEPT ![p] = [NoLoc EXCEPT !.op = "update_quiz", !.patch = patch,
                                                 !.current = get_quiz]]
    /\ IF get_quiz = NoQuiz
       THEN Finish(p, NoneResult)
       ELSE Goto(p, "uq_write") /\ UNCHANGED result
    /\ alone' = [alone EXCEPT ![p] = TRUE]
    /\ UNCHANGED <<store, fsm0>>

\* A write that drops the questions of the session.
UpdateQuizWriteEmptied(p) ==
    /\ pc[p] = "uq_write"
    /\ LET current == [Patched(loc[p].current, loc[p].patch) EXCEPT !.questions = <<>>]
       IN  /\ set_quiz(current)
           /\ loc' = [loc EXCEPT ![p].current = current]
    /\ Finish(p, PayloadResult)
    /\ alone' = AfterWrite(p)
    /\ UNCHANGED <<fsm, ctx, fsm0>>

\* fsm.py:119-121: current.update(patch); set_quiz(uid, current); return current
UpdateQuizWrite(p) ==
    /\ pc[p] = "uq_write"
    /\ LET current == Patched(loc[p].current, loc[p].patch)
       IN  /\ set_quiz(current)
           /\ loc' = [loc EXCEPT ![p].current = current]
    /\ Finish(p, PayloadResult)
    /\ alone' = AfterWrite(p)
    /\ UNCHANGED <<fsm, ctx, fsm0>>

\* A quiz is running: the state and the session that start quiz leaves
\* (main.py:134), with the placeholder questions.
InitQuizRec ==
    /\ fsm = QUIZZING
    /\ fsm0 = QUIZZING
    /\ ctx = EmptyCtx
    /\ quiz = QuizPayload(coerce_questions(JList(fake_questions(3, "vectors"))), 0,
                          "vectors", "basic")
    /\ pc = [p \in Procs |-> "idle"]
    /\ loc = [p \in Procs |-> NoLoc]
    /\ result = [p \in Procs |-> NoResult]
    /\ alone = [p \in Procs |-> TRUE]

NextQuizRec ==
    \E p \in Procs :
        \/ UpdateQuizRead(p)
        \/ UpdateQuizWrite(p)
        \/ QuizResultBegin(p)
        \/ QuizResultSetState(p)
        \/ QuizResultPersist(p)
        \/ Respond(p)

SpecQuizRec == InitQuizRec /\ [][NextQuizRec]_vars

\* ------------------------------------------- set_ctx and get_ctx, key by key
\* Values a caller may hand to set_ctx: strings (one of them the text of a
\* JSON number, one that is not JSON), None, a dict, an int.
CtxValues == {StrVal("vectors"), StrVal("42"), StrVal(BadCalendar), NoneVal,
              DictVal(PlanCalendar), IntVal("42")}

\* fsm.py:63-77: set_ctx(uid, key=value).  The calls are taken one at a time.
CtxSetKey(p) ==
    /\ \A q \in Procs : pc[q] = "idle"
    /\ \E k \in CtxFields, v \in CtxValues :
         /\ ctx' = set_ctx_store([x \in {k} |-> v])
         /\ loc' = [loc EXCEPT ![p] = [NoLoc EXCEPT !.op = "set_ctx", !.key = k, !.value = v]]
    /\ Finish(p, OkResult)
    /\ alone' = AfterWrite(p)
    /\ UNCHANGED <<fsm, quiz, fsm0>>

NextCtxKeys == \E p \in Procs : CtxSetKey(p) \/ Respond(p)

SpecCtxKeys == Init /\ [][NextCtxKeys]_vars

\* ------------------------------------------ the facade over expiring records
\* The context hash is dropped as a whole when its TTL (fsm.py:77) runs out.
ExpireCtx ==
    /\ ctx # EmptyCtx
    /\ ctx' = EmptyCtx
    /\ alone' = AfterWrite(0)
    /\ UNCHANGED <<fsm, quiz, pc, loc, result, fsm0>>

\* fsm.py:63-77 set_ctx, called with the keywords of main.py:66, the topic and
\* level of a request and a document reference that is a str.
CtxStore(p) ==
    /\ pc[p] = "idle"
    /\ \E topic \in Topics, depth \in Levels :
         ctx' = set_ctx_store([topic |-> StrVal(topic), level |-> StrVal(depth),
                               doc_url |-> StrVal(GoodDocUrl), calendar_info |-> NoneVal])
    /\ loc' = [loc EXCEPT ![p] = [NoLoc EXCEPT !.op = "set_ctx"]]
    /\ Finish(p, OkResult)
    /\ alone' = AfterWrite(p)
    /\ UNCHANGED <<fsm, quiz, fsm0>>

\* The facade, set_ctx called with values it can store, and the expiry of
\* each of the three records.
NextExpiry == NextTTL \/ ExpireCtx \/ \E p \in Procs : CtxStore(p)

SpecExpiry == Init /\ [][NextExpiry]_vars

\* ------------------------------------------- the content calls, called directly
\* QuizRequest.questions_count (schemas.py:38: ge=3, le=10) and topics.
ContentCounts == {3, 4, 10}
ContentTopics == {"vectors", "sets"}

\* Requests to the quiz endpoint that fail: no response or a non-2xx status
\* (raise_for_status), a body that is not JSON, null, an object without
\* questions, an array (no .get), questions that are a string, and questions
\* whose element is a string.  Then the bodies of QuizBodies.
QuizFailures ==
    <<QuizFailure,
      QuizReply(TRUE, FALSE, JNull),
      QuizReply(TRUE, TRUE, JNull),
      QuizReply(TRUE, TRUE, JObj(<<>>, <<>>)),
      QuizReply(TRUE, TRUE, JObj(<<"questions">>, <<JList(<<>>)>>)),
      QuizReply(TRUE, TRUE, JList(<<Q1>>)),
      QuizReply(TRUE, TRUE, JObj(<<"questions">>, <<JStr("AB")>>)),
      QuizReply(TRUE, TRUE, JObj(<<"questions">>, <<JList(<<JStr("Q")>>)>>))>>
ContentQuizReplies ==
    QuizFailures \o [i \in 1..Len(QuizBodies) |-> QuizReply(TRUE, TRUE, QuizBodies[i].body)]

\* Requests to the summary endpoint: failed, without a text, with an empty
\* text, with a text.
SummaryFailures ==
    <<ContentResponse(FALSE, None), ContentResponse(TRUE, None), ContentResponse(TRUE, EmptyStr)>>
ContentSummaryReplies == SummaryFailures \o <<ContentResponse(TRUE, "# Notes")>>

\* nodes.py:150-169: one call of call_flowise_quiz, answered by reply number
\* body.  The calls share nothing, so they are taken one at a time.
ContentQuizCall(p) ==
    /\ \A q \in Procs : pc[q] = "idle"
    /\ \E n \in ContentCounts, topic \in ContentTopics, i \in DOMAIN ContentQuizReplies :
         /\ loc' = [loc EXCEPT ![p] = [NoLoc EXCEPT !.op = "content_quiz", !.n = n,
                                                 !.topic = topic, !.body = i]]
         /\ Finish(p, QuizResult(call_flowise_quiz(n, topic, ContentQuizReplies[i])))
    /\ UNCHANGED <<store, alone, fsm0>>

\* nodes.py:126-144: one call of call_flowise_summary.
ContentSummaryCall(p) ==
    /\ \A q \in Procs : pc[q] = "idle"
    /\ \E topic \in ContentTopics, i \in DOMAIN ContentSummaryReplies :
         /\ loc' = [loc EXCEPT ![p] = [NoLoc EXCEPT !.op = "content_summary",
                                                 !.topic = topic, !.body = i]]
         /\ Finish(p, SummaryResult(call_flowise_summary(topic, ContentSummaryReplies[i])))
    /\ UNCHANGED <<store, alone, fsm0>>

NextContent == \E p \in Procs : ContentQuizCall(p) \/ ContentSummaryCall(p) \/ Respond(p)

SpecContent == Init /\ [][NextContent]_vars

\* =================================================================== claims
Admitted(p) == pc[p] \in {"plan_post", "study_set_ctx", "study_set_ready", "study_except"}
StudyInFlight(p) == pc[p] = "study_set_planning" \/ Admitted(p)
QuizInFlight(p) == InFlight(p) /\ loc[p].op = "quiz"

\* C1: two concurrent calls of fsm_guard_transition(u, {READY}, QUIZZING) that
\* start from READY: exactly one returns QUIZZING, the other returns READY.
\* (Checked under SpecGuard; the code returns QUIZZING from both.)
GuardQuizCallDone(p) ==
    /\ pc[p] = "done"
    /\ loc[p].op = "guard"
    /\ loc[p].from_states = {READY}
    /\ loc[p].to_state = QUIZZING
C1_ExactlyOneAdmitted ==
    \A p, q \in Procs :
        (/\ p # q
         /\ fsm0 = READY
         /\ GuardQuizCallDone(p) /\ GuardQuizCallDone(q)
         /\ \A r \in Procs \ {p, q} : pc[r] = "idle")
        => \/ result[p].detail = QUIZZING /\ result[q].detail = READY
           \/ result[p].detail = READY /\ result[q].detail = QUIZZING

\* C2: at most one start-planning of the user is between its admission (the
\* write of PLANNING) and its completion at any time.
C2_OnePlanningInFlight == Cardinality({p \in Procs : Admitted(p)}) <= 1

\* C3: start planning that finds the state PLANNING or QUIZZING fails with 409
\* naming that state, writes nothing to the state, the context or the quiz
\* session, and makes no request to the planner.
StudyStarts(p) == pc[p] = "idle" /\ pc'[p] # "idle" /\ loc'[p].op = "study"
C3_StudyConflict ==
    [][\A p \in Procs :
          (StudyStarts(p) /\ get_state \in {PLANNING, QUIZZING})
          => /\ pc'[p] = "done"
             /\ result'[p] = HttpError(409, get_state)
             /\ loc'[p].attempt = 0
             /\ UNCHANGED store]_vars
C3_Witness ==
    \E p \in Procs :
        /\ pc[p] = "done" /\ loc[p].op = "study"
        /\ result[p] = HttpError(409, QUIZZING)
        /\ fsm = QUIZZING

\* C4: every change of the stored state is a transition of the table:
\* IDLE->PLANNING, PLANNING->READY, PLANNING->IDLE, READY->QUIZZING,
\* QUIZZING->READY.
TableTransitions ==
    {<<IDLE, PLANNING>>, <<PLANNING, READY>>, <<PLANNING, IDLE>>,
     <<READY, QUIZZING>>, <<QUIZZING, READY>>}
C4_OnlyTableTransitions ==
    [][StateOf(fsm') # StateOf(fsm)
       => <<StateOf(fsm), StateOf(fsm')>> \in TableTransitions]_vars

\* C5: the stored state never changes from IDLE or PLANNING to QUIZZING: a
\* write that makes it QUIZZING finds it READY.
C5_QuizzingOnlyFromReady ==
    [][(fsm' = QUIZZING /\ fsm # QUIZZING) => StateOf(fsm) = READY]_vars

\* C6: while no start-quiz is in flight, a quiz session is present only in
\* state QUIZZING.
C6_QuizOnlyWhileQuizzing ==
    (quiz.present /\ \A p \in Procs : ~QuizInFlight(p)) => get_state = QUIZZING

\* C7: record quiz result, from any prior state: its first step leaves the quiz
\* session absent, its second stores READY, and only then persistence runs;
\* whether persistence succeeds or fails (error 500) the step writes nothing to
\* the store, and when no other unit wrote in between, the operation ends with
\* the session absent and the state READY.
C7_QuizResultUnblocks ==
    [][\A p \in Procs :
          /\ (pc[p] = "idle" /\ pc'[p] = "qr_set_state") => ~quiz'.present
          /\ (pc[p] = "qr_set_state" /\ pc'[p] # "qr_set_state")
             => (pc'[p] = "qr_persist" /\ fsm' = READY)
          /\ (pc[p] = "qr_persist" /\ pc'[p] # "qr_persist")
             => /\ pc'[p] = "done"
                /\ result'[p] \in {OkResult, HttpError(500, "result not saved")}
                /\ alone'[p] = alone[p]
                /\ alone[p] => (fsm' = READY /\ ~quiz'.present)]_vars
C7_Witness ==
    \E p \in Procs :
        /\ pc[p] = "done" /\ loc[p].op = "quiz_result"
        /\ result[p].status = 500
        /\ alone[p] /\ fsm = READY /\ ~quiz.present

\* C8: when every attempt of the planning call ends in a timeout, a connection
\* error or a 5xx, the adapter returns the stub plan and start planning returns
\* that plan, not an error.
C8_StubPlanReturned ==
    [][\A p \in Procs :
          (Admitted(p) /\ loc[p].exhausted)
          => /\ loc[p].info = StubPlan
             /\ pc'[p] = "done" => result'[p] = PlanResult(StubPlan)]_vars

\* C9: an admitted start-planning completes: it is never blocked, each of its
\* steps lowers a rank bounded by 5, and it makes at most 2 requests to the
\* planner; whatever the planner answers, the write that ends it stores IDLE or
\* READY; and the stored state is PLANNING only while a start-planning that
\* wrote it is still in flight.
StudyRank(p) ==
    CASE pc[p] = "study_set_planning" -> 5
      [] pc[p] = "plan_post" -> 5 - loc[p].attempt
      [] pc[p] = "study_set_ctx" -> 2
      [] pc[p] \in {"study_set_ready", "study_except"} -> 1
      [] OTHER -> 0
StudyStep(p) == StudySetPlanning(p) \/ PlanPost(p) \/ StudySetCtx(p) \/ StudySetState(p)
C9_PlanningInv ==
    /\ fsm = PLANNING => \E p \in Procs : Admitted(p)
    /\ \A p \in Procs :
         /\ StudyInFlight(p) => ENABLED StudyStep(p)
         /\ loc[p].attempt <= attempts
C9_PlanningStep ==
    \A p \in Procs :
        /\ (StudyInFlight(p) /\ <<pc[p], loc[p]>> # <<pc'[p], loc'[p]>>)
           => StudyRank(p)' < StudyRank(p)
        /\ (Admitted(p) /\ pc'[p] = "done") => fsm' \in {IDLE, READY}
C9_PlanningEnds == []C9_PlanningInv /\ [][C9_PlanningStep]_vars
C9_Witness ==
    \E p \in Procs :
        /\ pc[p] = "done" /\ loc[p].op = "study"
        /\ result[p].status = 422
        /\ fsm = IDLE

\* C10: when start planning is admitted and the planning call returns a plan,
\* the operation ends with the request's topic and level and the plan's
\* document reference and calendar metadata in the context, the state READY
\* and the plan as its result.
C10_PlanStored ==
    [][\A p \in Procs :
          (Admitted(p) /\ loc[p].info # NoInfo /\ pc'[p] = "done")
          => /\ result'[p] = PlanResult(loc[p].info)
             /\ fsm' = READY
             /\ DOMAIN CtxOf(ctx') = CtxFields
             /\ CtxOf(ctx')["topic"] = StrVal(loc[p].topic)
             /\ CtxOf(ctx')["level"] = StrVal(loc[p].level)]_vars

\* C11: when start planning is admitted and the planning call fails with a
\* business or validation error (a planner 4xx, no usable item, a missing
\* document reference), the operation answers with that error, stores IDLE
\* whether it found the state IDLE or READY, and none of its steps changes the
\* context or the quiz session.
BusinessStatuses == {400, 404, 422}
C11_PlanningFailure ==
    [][\A p \in Procs :
          /\ (pc[p] = "plan_post" /\ pc'[p] = "study_except")
             => (loc'[p].exc.status \in BusinessStatuses /\ UNCHANGED store)
          /\ (pc[p] = "study_except" /\ loc[p].exc.status \in BusinessStatuses
                /\ pc'[p] # pc[p])
             => /\ pc'[p] = "done"
                /\ result'[p] = HttpError(loc[p].exc.status, loc[p].exc.detail)
                /\ loc[p].st \in {IDLE, READY}
                /\ fsm' = IDLE
                /\ ctx' = ctx /\ quiz' = quiz
          /\ (pc[p] = "study_set_planning" /\ pc'[p] # pc[p])
             => (ctx' = ctx /\ quiz' = quiz)]_vars
C11_Witness ==
    \E p \in Procs :
        /\ pc[p] = "done" /\ loc[p].op = "study" /\ loc[p].st = READY
        /\ result[p] = HttpError(400, "quota exceeded")
        /\ fsm = IDLE

\* C12: start quiz that finds a state other than READY (IDLE, also for an
\* absent or expired record, PLANNING or QUIZZING) fails with 409 naming that
\* state, goes no further (no content call) and leaves the state, the context
\* and the quiz session as they were.
QuizStarts(p) == pc[p] = "idle" /\ pc'[p] # "idle" /\ loc'[p].op = "quiz"
C12_QuizConflict ==
    [][\A p \in Procs :
          (QuizStarts(p) /\ get_state # READY)
          => /\ pc'[p] = "done"
             /\ result'[p] = HttpError(409, get_state)
             /\ UNCHANGED store]_vars

\* C13: start quiz admitted from READY with no explicit topic and no topic in
\* the context: the resolution goes to the revert, not to the content call; the
\* revert stores READY and answers with the validation error (400); no step of
\* the operation writes the quiz session.
TopicInCtx == "topic" \in DOMAIN get_ctx /\ Truthy(get_ctx["topic"])
C13_QuizNoTopic ==
    [][\A p \in Procs :
          /\ (pc[p] = "quiz_guard_write" /\ pc'[p] # pc[p])
             => (pc'[p] = "quiz_get_ctx" /\ quiz' = quiz /\ ctx' = ctx)
          /\ (pc[p] = "quiz_get_ctx" /\ pc'[p] # pc[p]
                /\ loc[p].topic = NoTopic /\ ~TopicInCtx)
             => (pc'[p] = "quiz_revert" /\ UNCHANGED store)
          /\ (pc[p] = "quiz_revert" /\ pc'[p] # pc[p])
             => /\ pc'[p] = "done"
                /\ result'[p] = HttpError(400, "topic undefined")
                /\ fsm' = READY
                /\ quiz' = quiz /\ ctx' = ctx]_vars
C13_Witness ==
    \E p \in Procs :
        /\ pc[p] = "done" /\ loc[p].op = "quiz" /\ loc[p].st = READY
        /\ result[p] = HttpError(400, "topic undefined")
        /\ alone[p] /\ fsm = READY /\ ~quiz.present

\* C14: start quiz admitted from READY with a resolvable topic, with no write
\* of another unit of work in between: the explicit topic, when given, is the
\* resolved one and the level is the context's or "basic"; the operation ends
\* with the state QUIZZING and a quiz session at index 0 whose questions are
\* the ones returned and whose topic and level are the resolved ones, whether
\* the content call answered or failed.
C14_QuizStarted ==
    [][\A p \in Procs :
          /\ (pc[p] = "quiz_get_ctx" /\ pc'[p] # pc[p] /\ loc[p].topic \in Topics)
             => /\ pc'[p] = "quiz_call"
                /\ loc'[p].topic = loc[p].topic
                /\ loc'[p].level = ResolveLevel(get_ctx)
          /\ (pc[p] = "quiz_call" /\ pc'[p] # pc[p])
             => /\ pc'[p] = "quiz_set_quiz"
                /\ Len(loc'[p].questions) > 0
                /\ loc'[p].topic = loc[p].topic /\ loc'[p].level = loc[p].level
          /\ (pc[p] = "quiz_set_quiz" /\ pc'[p] # pc[p] /\ loc[p].st = READY /\ alone[p])
             => /\ pc'[p] = "done"
                /\ result'[p] = QuizResult(loc[p].questions)
                /\ fsm' = QUIZZING
                /\ quiz' = QuizPayload(result'[p].questions, 0, loc[p].topic, loc[p].level)]_vars
C14_Witness ==
    \E p \in Procs :
        /\ pc[p] = "done" /\ loc[p].op = "quiz" /\ loc[p].st = READY /\ alone[p]
        /\ result[p].questions = coerce_questions(JList(fake_questions(3, "vectors")))
        /\ fsm = QUIZZING
        /\ quiz = QuizPayload(result[p].questions, 0, "vectors", "basic")

\* C15: fetch summary goes on only when it finds the state READY; otherwise it
\* ends at once with 409 naming the state, before any content call; and no
\* step of it, whatever its outcome (409, 400, the upstream's text, the
\* placeholder), changes the state, the context or the quiz session.
SummaryStarts(p) == pc[p] = "idle" /\ pc'[p] # "idle" /\ loc'[p].op = "summary"
SummaryStepOf(p) ==
    /\ pc'[p] # pc[p]
    /\ \/ SummaryStarts(p)
       \/ pc[p] \in {"summary_get_ctx", "summary_call"}
C15_SummaryFrame ==
    [][\A p \in Procs :
          /\ SummaryStepOf(p) => UNCHANGED store
          /\ (SummaryStarts(p) /\ get_state # READY)
             => (pc'[p] = "done" /\ result'[p] = HttpError(409, get_state))
          /\ (SummaryStarts(p) /\ get_state = READY) => pc'[p] = "summary_get_ctx"
          /\ (pc[p] = "summary_get_ctx" /\ pc'[p] # pc[p])
             => \/ pc'[p] = "summary_call"
                \/ pc'[p] = "done" /\ result'[p] = HttpError(400, "topic undefined")
          /\ (pc[p] = "summary_call" /\ pc'[p] # pc[p])
             => (pc'[p] = "done" /\ result'[p].kind = "summary")]_vars
C15_Witness ==
    \E p \in Procs :
        /\ pc[p] = "done" /\ loc[p].op = "summary" /\ loc[p].st = READY
        /\ result[p] = SummaryResult(SummaryStub("vectors"))
        /\ fsm = READY

QuizCallDone(p) == pc[p] = "done" /\ loc[p].op = "call_flowise_quiz"
ClaimOptions(o) ==
    LET given == IF Has(o, "options") THEN Get(o, "options").items ELSE <<>>
    IN  [k \in 1..4 |-> IF k <= Len(given) THEN JStrOf(given[k])
                        ELSE "Variant " \o ToString(k)]
ClaimIndex(o) ==
    LET idx == Get(o, "answer_index")
    IN  IF idx.t = "int" /\ 0 <= idx.n /\ idx.n < 4 THEN idx.n ELSE 0
C17_FourOptions ==
    \A p \in Procs :
        QuizCallDone(p)
        => LET out == result[p].questions
           IN  /\ Len(out) > 0
               /\ \A k \in 1..Len(out) :
                    Len(out[k].options) = 4 /\ out[k].answer_index \in 0..3
               /\ (loc[p].body # 0 /\ QuizBodies[loc[p].body].kind = "named")
                  => LET qs == QuizBodies[loc[p].body].qs
                     IN  /\ Len(out) = Len(qs)
                         /\ \A k \in 1..Len(qs) :
                              /\ out[k].options = ClaimOptions(qs[k])
                              /\ out[k].answer_index = ClaimIndex(qs[k])

\* C18: when a successful quiz response carries its question objects inside
\* nested containers, at any depth and whether the top-level value is an object
\* or an array, call_flowise_quiz returns exactly those questions, normalised,
\* in document order.  (Checked under SpecQuizCall.)
ClaimQuestion(o) ==
    QuizQuestion(JStrOf(JOr(Get(o, "q"), Get(o, "question"))), ClaimOptions(o), ClaimIndex(o))
C18_NestedQuestions ==
    \A p \in Procs :
        (QuizCallDone(p) /\ loc[p].body # 0 /\ QuizBodies[loc[p].body].kind = "wrapped")
        => LET qs == QuizBodies[loc[p].body].qs
           IN  result[p].questions = [k \in 1..Len(qs) |-> ClaimQuestion(qs[k])]

\* C19: the planning call makes at most 2 requests, and the second only after
\* the first ended in a timeout, a connection error or a 5xx; a 4xx response on
\* either attempt ends the call with an error of that status and the extracted
\* message; the outcome is that of the first response that is not such a
\* failure, whichever attempt it answers, and the stub plan when both attempts
\* failed that way.  (Checked under SpecPlan, where the responses are kept.)
PlanRequested(p) == pc[p] = "plan_post" /\ loc'[p] # loc[p]
PlanOutcome(out) ==
    <<IF out.kind = "return" THEN "study_set_ctx" ELSE "study_except", out.info, out.exc>>
C19_RetryPolicy ==
    [][\A p \in Procs :
          PlanRequested(p)
          => LET resp == loc'[p].resp
                 failed == resp.kind \in {"timeout", "connect"} \/ resp.status \in 500..599
             IN  /\ loc[p].attempt \in 1..2
                 /\ loc[p].attempt = 2
                    => (loc[p].resp.kind \in {"timeout", "connect"}
                        \/ loc[p].resp.status \in 500..599)
                 /\ pc'[p] = "plan_post"
                    => (loc[p].attempt = 1 /\ failed /\ loc'[p].attempt = 2)
                 /\ resp.status \in 400..499
                    => /\ pc'[p] = "study_except"
                       /\ loc'[p].exc = [status |-> resp.status,
                                         detail |-> resp.body.items[1].error]
                       /\ loc'[p].info = NoInfo
                 /\ ~failed
                    => <<pc'[p], loc'[p].info, loc'[p].exc>>
                         = PlanOutcome(trigger_n8n_plan(resp, 1))
                 /\ (failed /\ loc[p].attempt = 2)
                    => (pc'[p] = "study_set_ctx" /\ loc'[p].info = StubPlan)]_vars
C19_Witness ==
    \E p \in Procs :
        /\ pc[p] = "study_except" /\ loc[p].attempt = 2
        /\ loc[p].resp.status = 404
        /\ loc[p].exc = [status |-> 404, detail |-> "bad topic"]

\* C20: a planner success response whose selected item has no document
\* reference, or an empty one, makes the planning call raise 422 at once: no
\* further request, no stub plan; start planning then stores IDLE and answers
\* 422.  (Checked under SpecPlan.)
MissingDoc(resp) ==
    /\ resp.kind = "http" /\ resp.status \in 200..299
    /\ LET item == pick_ok_item(resp.body)
       IN  /\ item.kind \in {"dict", "scalar"}
           /\ item.ok # "false"
           /\ safe_get_doc_url(item) \in {None, EmptyStr}
MarkedOk(it) == it.kind = "dict" /\ it.ok = "true"
Picked(p) == pc[p] = "done" /\ loc[p].op = "pick_ok_item"
C21_ItemSelection ==
    \A p \in Procs :
        Picked(p)
        => LET data == loc[p].resp.body
               items == data.items
               got == loc[p].item
           IN  /\ data.t = "obj" => got = items[1]
               /\ (data.t = "list" /\ \E i \in DOMAIN items : MarkedOk(items[i]))
                  => \E i \in DOMAIN items :
                        /\ MarkedOk(items[i])
                        /\ \A j \in 1..(i - 1) : ~MarkedOk(items[j])
                        /\ got = items[i]
               /\ (data.t = "list" /\ items # <<>>
                     /\ \A i \in DOMAIN items : ~MarkedOk(items[i]))
                  => got = items[1]
               /\ (data.t = "list" /\ items = <<>>) => got = NoItem
               /\ data.t \in {"scalar", "unparseable"} => got = NoItem
C21_Witness ==
    \E p \in Procs :
        /\ Picked(p)
        /\ loc[p].resp.body = Body("list", <<FailedItem, GoodItem>>)
        /\ loc[p].item = GoodItem

\* C22: a content call (summary, quiz) is one request and always returns: when
\* the request fails (no response, a non-2xx status, a body that cannot be
\* used) the summary call returns the one-line placeholder document of the
\* request's topic, and the quiz call returns placeholder questions, exactly as
\* many as requested, that depend on the request alone.  (Checked under
\* SpecContent.)
ContentCalled(p, op) == pc[p] = "idle" /\ pc'[p] # "idle" /\ loc'[p].op = op
PlaceholderQuestion(o, k, topic) ==
    /\ o.q = ToString(k) \o ". Topic: " \o topic \o ". Choose the right option."
    /\ o.options = <<"A", "B", "C", "D">>
    /\ o.answer_index = 0
C22_ContentFallback ==
    [][\A p \in Procs :
          /\ (ContentCalled(p, "content_quiz") \/ ContentCalled(p, "content_summary"))
             => /\ pc'[p] = "done"
                /\ result'[p].kind \in {"quiz", "summary"}
                /\ result'[p].status = 200
          /\ (ContentCalled(p, "content_quiz") /\ loc'[p].body <= Len(QuizFailures))
             => /\ Len(result'[p].questions) = loc'[p].n
                /\ \A k \in 1..loc'[p].n :
                      PlaceholderQuestion(result'[p].questions[k], k, loc'[p].topic)
          /\ (ContentCalled(p, "content_summary") /\ loc'[p].body <= Len(SummaryFailures))
             => result'[p].detail = "# " \o loc'[p].topic \o " (summary stub)"]_vars
C22_Witness ==
    \E p \in Procs :
        /\ pc[p] = "done" /\ loc[p].op = "content_quiz"
        /\ loc[p].n = 4 /\ loc[p].body = 1
        /\ Len(result[p].questions) = 4
        /\ PlaceholderQuestion(result[p].questions[4], 4, loc[p].topic)

\* C23: the state, the context and the quiz record expire independently at
\* any point between the steps of the operations; get_state gives IDLE when the
\* state record is absent and the stored value otherwise, get_ctx an empty
\* mapping and get_quiz none when their record is absent; a handler that reads
\* the state sees that value; and no operation of the facade ends in a 5xx
\* because a record is missing: what makes an operation end that way lies in
\* its own locals (a plan that set_ctx cannot serialise, a result that could
\* not be persisted), whatever the store holds.  (Checked under SpecExpiry.)
RecordsRead ==
    /\ get_state = (IF fsm = ABSENT THEN IDLE ELSE fsm)
    /\ ctx = EmptyCtx => DOMAIN get_ctx = {}
    /\ ~quiz.present => get_quiz = NoQuiz
Begins(p) == pc[p] = "idle" /\ pc'[p] # "idle"
Ends(p) == pc[p] # "done" /\ pc'[p] = "done"
C23_MissingRecords ==
    /\ []RecordsRead
    /\ [][\A p \in Procs :
             /\ (Begins(p) /\ loc'[p].op \in {"study", "summary", "quiz"})
                => loc'[p].st = (IF fsm = ABSENT THEN IDLE ELSE fsm)
             /\ (Begins(p) /\ loc'[p].op = "progress" /\ ctx = EmptyCtx)
                => result'[p] = ProgressResult(None)
             /\ (Ends(p) /\ result'[p].status >= 500)
                => \/ loc[p].op = "study" /\ set_ctx_raises(StudyCtxArgs(loc[p]))
                   \/ loc[p].op = "quiz_result" /\ pc[p] = "qr_persist"]_vars
C23_Witness ==
    \E p, q \in Procs :
        /\ pc[q] = "done" /\ loc[q].op = "set_ctx"
        /\ fsm = ABSENT /\ ctx = EmptyCtx /\ ~quiz.present
        /\ pc[p] = "done" /\ loc[p].op = "summary" /\ loc[p].st = IDLE
        /\ result[p] = HttpError(409, IDLE)

\* C24: a call of fsm_guard_transition(u, from, to) that runs alone returns to
\* and leaves to as the stored state when the state before it, with absent
\* read as IDLE, is in from; otherwise it returns that state and writes
\* nothing: the record is as it was, absent if it was absent.  (Checked under
\* SpecGuard, where every unit of work makes one call: the call of p ran alone
\* when every other unit is still idle.)
GuardRanAlone(p) ==
    /\ pc[p] = "done" /\ loc[p].op = "guard"
    /\ \A q \in Procs \ {p} : pc[q] = "idle"
C24_GuardedTransition ==
    \A p \in Procs :
        GuardRanAlone(p)
        => LET before == IF fsm0 = ABSENT THEN IDLE ELSE fsm0
           IN  IF before \in loc[p].from_states
               THEN result[p] = StateResult(loc[p].to_state) /\ fsm = loc[p].to_state
               ELSE result[p] = StateResult(before) /\ fsm = fsm0
C24_Witness ==
    \E p \in Procs :
        /\ GuardRanAlone(p)
        /\ fsm0 = ABSENT /\ loc[p].from_states = {IDLE, READY}
        /\ loc[p].to_state = PLANNING
        /\ result[p] = StateResult(PLANNING) /\ fsm = PLANNING

\* C25: after set_ctx(u, k = v), for a string or any other value v that JSON
\* can carry, get_ctx(u) maps k to a value equal to v and every other key is
\* stored as before; a stored string that is not JSON comes back as it is.
\* (Checked under SpecCtxKeys; the code gives the number 42 for the string
\* "42".)
CtxKeySet(p) == pc[p] = "idle" /\ pc'[p] = "done" /\ loc'[p].op = "set_ctx"
C25_ContextRoundTrip ==
    [][\A p \in Procs :
          CtxKeySet(p)
          => LET k == loc'[p].key
                 got == CtxOf(ctx')
             IN  /\ k \in DOMAIN got
                 /\ got[k] = loc'[p].value
                 /\ \A j \in CtxFields \ {k} : ctx'[j] = ctx[j]]_vars

\* C27: once the stored state is QUIZZING it stays QUIZZING until a record quiz
\* result writes READY or a start quiz gives the state back for want of a
\* topic: no step of a start planning, whether the request arrives then or is
\* already in flight, replaces QUIZZING.  (Checked under Spec, which has no
\* expiry; the code lets a start planning in flight write over QUIZZING.)
LeavesQuizzing(p) ==
    \/ pc[p] = "qr_set_state" /\ pc'[p] # pc[p] /\ fsm' = READY
    \/ loc[p].op = "quiz" /\ pc'[p] # pc[p] /\ pc'[p] = "done"
         /\ result'[p].status = 400 /\ fsm' = READY
C27_QuizzingKept ==
    [][(fsm = QUIZZING /\ fsm' # QUIZZING) => \E p \in Procs : LeavesQuizzing(p)]_vars

\* C26: update_quiz(u, patch) that runs alone returns none and creates no quiz
\* record when there is no session; when there is one it stores, and returns,
\* the payload that was there with just the fields of the patch replaced (the
\* questions and every other field as they were), the write renewing the
\* record.  (Checked under SpecQuizRec.)
C26_UpdateQuiz ==
    [][\A p \in Procs :
          /\ (pc[p] = "idle" /\ pc'[p] # "idle" /\ loc'[p].op = "update_quiz"
                /\ ~quiz.present)
             => /\ pc'[p] = "done"
                /\ result'[p] = NoneResult
                /\ ~quiz'.present
          /\ (pc[p] = "uq_write" /\ pc'[p] # pc[p] /\ alone[p])
             => /\ pc'[p] = "done" /\ result'[p] = PayloadResult
                /\ quiz'.present
                /\ quiz'.questions = quiz.questions /\ quiz'.level = quiz.level
                /\ quiz'.current_index = IF "current_index" \in loc[p].patch.fields
                                         THEN loc[p].patch.current_index
                                         ELSE quiz.current_index
                /\ quiz'.topic = IF "topic" \in loc[p].patch.fields
                                 THEN loc[p].patch.topic ELSE quiz.topic
                /\ loc'[p].current = quiz']_vars
C26_Witness ==
    \E p \in Procs :
        /\ pc[p] = "done" /\ loc[p].op = "update_quiz" /\ alone[p]
        /\ result[p] = PayloadResult
        /\ loc[p].patch = Patch({"current_index", "topic"}, 1, "sets")
        /\ quiz = QuizPayload(coerce_questions(JList(fake_questions(3, "vectors"))), 1,
                              "sets", "basic")
        /\ loc[p].current = quiz

\* C28: a quiz session deleted by clear_quiz, as record quiz result does, is
\* not brought back by an update_quiz running beside it: however the read and
\* the write of update_quiz fall around the delete, once both have finished
\* there is no session.  (Checked under SpecQuizRec, where nothing but
\* update_quiz writes a session; the code writes back what it read before the
\* delete.)
C28_DeletedStaysDeleted ==
    \A p, q \in Procs :
        (/\ pc[p] = "done" /\ loc[p].op = "update_quiz"
         /\ loc[q].op = "quiz_result" /\ pc[q] \in {"qr_set_state", "qr_persist", "done"})
        => ~quiz.present

====
